---------------------------- MODULE Spec2Model ----------------------------
(***************************************************************************)
(* A model of mustaine's Hessian 1.0.2 deserializer (mustaine/parser.py).  *)
(*                                                                         *)
(* The stream is a sequence of bytes (integers 0..255); `pos' is the       *)
(* number of bytes already consumed.  One action models one iteration of   *)
(* the `while True' loop of Parser.parse_stream; the value decoders        *)
(* (_read_object and the decoders it calls) are recursive operators that   *)
(* map a stream and a position to a decode result.                         *)
(*                                                                         *)
(* Python 2 semantics are kept where the code depends on them: the        *)
(* truthiness tests (`if self._result.value:'), the half-open range()      *)
(* tests of _read_string, StringIO.read returning fewer bytes than asked,  *)
(* struct.unpack failing on a short buffer, str() of a unicode key.        *)
(***************************************************************************)
EXTENDS Integers, Sequences, FiniteSets, TLC

VARIABLES stream, pos, result, pc, err, eof, tags

vars == <<stream, pos, result, pc, err, eof, tags>>

---------------------------------------------------------------------------
(* Tag bytes: ord() of the characters the parser compares against.         *)

TAG_c == 99
TAG_r == 114
TAG_H == 72
TAG_m == 109
TAG_f == 102
TAG_z == 122
TAG_N == 78
TAG_T == 84
TAG_F == 70
TAG_I == 73
TAG_L == 76
TAG_D == 68
TAG_d == 100
TAG_s == 115
TAG_x == 120
TAG_S == 83
TAG_X == 88
TAG_b == 98
TAG_B == 66
TAG_R == 82
TAG_V == 86
TAG_M == 77
TAG_t == 116
TAG_l == 108

\* '\x01\x00', the only version parse_stream accepts
VERSION == <<1, 0>>

\* str.lower() on one byte
Lower(b) == IF b >= 65 /\ b <= 90 THEN b + 32 ELSE b

Min(a, b) == IF a <= b THEN a ELSE b

---------------------------------------------------------------------------
(* Decoded values.  Every kind has its own record shape.                   *)

NullV       == [t |-> "null"]
BoolV(b)    == [t |-> "bool", b |-> b]
IntV(i)     == [t |-> "int", i |-> i]
\* a 64-bit integer, kept as its 8 big-endian two's complement bytes
LongV(bs)   == [t |-> "long", q |-> bs]
\* a float64, kept as its 8 big-endian IEEE-754 bytes
DoubleV(bs) == [t |-> "double", d |-> bs]
\* a unicode text: the sequence of its code points
StrV(cps)   == [t |-> "str", s |-> cps]
\* a Python 2 byte string (method name, type name, str() of a key)
RawV(bs)    == [t |-> "raw", r |-> bs]
ListV(ms)   == [t |-> "list", m |-> ms]
TupleV(ms)  == [t |-> "tuple", m |-> ms]
\* a dict: the sequence of its items, [k |-> key, v |-> value]
DictV(its)  == [t |-> "dict", items |-> its]

\* the text str(v) yields for a value whose text form is not spelled out here
StrOfV(v)   == [t |-> "strof", of |-> v]

\* truth value of `if v:'
Truthy(v) ==
    CASE v.t = "null"   -> FALSE
      [] v.t = "bool"   -> v.b
      [] v.t = "int"    -> v.i # 0
      [] v.t = "long"   -> \E k \in 1..Len(v.q) : v.q[k] # 0
      [] v.t = "double" -> \/ \E k \in 2..Len(v.d) : v.d[k] # 0
                           \/ v.d[1] \notin {0, 128}
      [] v.t = "str"    -> v.s # <<>>
      [] v.t = "raw"    -> v.r # <<>>
      [] v.t = "list"   -> v.m # <<>>
      [] v.t = "tuple"  -> v.m # <<>>
      [] v.t = "dict"   -> v.items # <<>>
      [] OTHER          -> TRUE

---------------------------------------------------------------------------
(* Decode results.  `pos' is the stream position when the decoder returned *)
(* or raised; `eof' tells that a read found fewer bytes than it asked for. *)

Ok(v, p)       == [ok |-> TRUE,  val |-> v,     pos |-> p, err |-> "", eof |-> FALSE]
Fail(e, p, xe) == [ok |-> FALSE, val |-> NullV, pos |-> p, err |-> e,  eof |-> xe]

\* Sequencing of two decoding steps: an exception raised by the first leaves
\* the decoder at once, otherwise K goes on with what the first returned.
Then(r, K(_)) == IF r.ok THEN K(r) ELSE r

\* Parser._read: StringIO.read(n) returns at most n bytes, fewer at the end of
\* the stream; only an empty result raises.  val is the bytes read.
Read(s, p, n) ==
    IF Min(n, Len(s) - p) = 0
    THEN Fail("UnexpectedEndOfStream", p, Len(s) - p = 0)
    ELSE [ok |-> TRUE, val |-> SubSeq(s, p + 1, p + Min(n, Len(s) - p)),
          pos |-> p + Min(n, Len(s) - p), err |-> "", eof |-> Len(s) - p < n]

\* unpack('>H', b)[0] for a 2-byte b
U16(b) == b[1] * 256 + b[2]

\* unpack('>l', b)[0] for a 4-byte b
S32(b) == (IF b[1] >= 128 THEN b[1] - 256 ELSE b[1]) * 16777216
          + b[2] * 65536 + b[3] * 256 + b[4]

\* self._read(n) handed to unpack: struct.error unless all n bytes came
ReadFixed(s, p, n) ==
    Then(Read(s, p, n), LAMBDA r :
         IF Len(r.val) # n THEN Fail("struct.error", r.pos, TRUE)
         ELSE Ok(r.val, r.pos))

\* unpack('>H', self._read(2))[0]
ReadLen(s, p) == Then(ReadFixed(s, p, 2), LAMBDA r : Ok(U16(r.val), r.pos))

\* the next tag, self._read(1); val is the byte
ReadCode(s, p) == Then(Read(s, p, 1), LAMBDA r : Ok(r.val[1], r.pos))

---------------------------------------------------------------------------
(* Text: _read_string and the strict UTF-8 decode of ''.join(bytes).       *)

RECURSIVE Flatten(_)
\* ''.join(bytes)
Flatten(chunks) ==
    IF chunks = <<>> THEN <<>> ELSE Head(chunks) \o Flatten(Tail(chunks))

IsCont(b) == b >= 128 /\ b <= 191

\* Number of bytes of the UTF-8 sequence that lead byte b opens, 0 when b opens
\* none (the decoder's table, not _read_string's).
Utf8Width(b) ==
    CASE b <= 127             -> 1
      [] b >= 194 /\ b <= 223 -> 2
      [] b >= 224 /\ b <= 239 -> 3
      [] b >= 240 /\ b <= 244 -> 4
      [] OTHER                -> 0

\* Whether bs, of the width its lead byte asks for, is well formed for the
\* Python 2 decoder: continuation bytes in 0x80..0xBF, no overlong form, no
\* code point above U+10FFFF (surrogates are let through).
Utf8WellFormed(bs) ==
    /\ \A k \in 2..Len(bs) : IsCont(bs[k])
    /\ (bs[1] = 224 => bs[2] >= 160)
    /\ (bs[1] = 240 => bs[2] >= 144)
    /\ (bs[1] = 244 => bs[2] <= 143)

\* The code point a well-formed sequence encodes.
Utf8CodePoint(bs) ==
    CASE Len(bs) = 1 -> bs[1]
      [] Len(bs) = 2 -> (bs[1] - 192) * 64 + (bs[2] - 128)
      [] Len(bs) = 3 -> (bs[1] - 224) * 4096 + (bs[2] - 128) * 64 + (bs[3] - 128)
      [] OTHER       -> (bs[1] - 240) * 262144 + (bs[2] - 128) * 4096
                        + (bs[3] - 128) * 64 + (bs[4] - 128)

RECURSIVE Utf8Decode(_, _)
\* run.decode('utf-8') after the code points cps: [ok, cps]
Utf8Decode(run, cps) ==
    IF run = <<>> THEN [ok |-> TRUE, cps |-> cps]
    ELSE IF \/ Utf8Width(run[1]) = 0
            \/ Utf8Width(run[1]) > Len(run)
            \/ ~Utf8WellFormed(SubSeq(run, 1, Utf8Width(run[1])))
    THEN [ok |-> FALSE, cps |-> <<>>]
    ELSE Utf8Decode(SubSeq(run, Utf8Width(run[1]) + 1, Len(run)),
                    Append(cps, Utf8CodePoint(SubSeq(run, 1, Utf8Width(run[1])))))

\* the unicode text of a decoded run, UnicodeDecodeError of a malformed one
Decoded(d, p, short) ==
    IF d.ok THEN Ok(StrV(d.cps), p) ELSE Fail("UnicodeDecodeError", p, short)

\* Continuation bytes _read_string reads after lead byte b, -1 when b matches
\* none of its range() tests (range(lo, hi) leaves hi out) and is not kept.
StringExtra(b) ==
    CASE b >= 0   /\ b < 127 -> 0
      [] b >= 194 /\ b < 223 -> 1
      [] b >= 224 /\ b < 239 -> 2
      [] b >= 240 /\ b < 244 -> 3
      [] OTHER               -> -1

RECURSIVE ReadChars(_, _, _, _, _)
\* the `while len > 0' loop of _read_string and the decode that follows it
ReadChars(s, p, len, chunks, short) ==
    IF len = 0 THEN Decoded(Utf8Decode(Flatten(chunks), <<>>), p, short)
    ELSE Then(Read(s, p, 1), LAMBDA byte :
         IF StringExtra(byte.val[1]) = -1
         THEN ReadChars(s, byte.pos, len - 1, chunks, short)
         ELSE IF StringExtra(byte.val[1]) = 0
         THEN ReadChars(s, byte.pos, len - 1, Append(chunks, byte.val), short)
         ELSE Then(Read(s, byte.pos, StringExtra(byte.val[1])), LAMBDA more :
                   ReadChars(s, more.pos, len - 1,
                             Append(chunks, byte.val \o more.val),
                             short \/ more.eof)))

\* Parser._read_string
ReadString(s, p) ==
    Then(ReadLen(s, p), LAMBDA len : ReadChars(s, len.pos, len.val, <<>>, FALSE))

---------------------------------------------------------------------------
(* Data carriers of mustaine.protocol, which the parser only fills in.     *)

\* Binary(bytes)
Binary(bs) == [t |-> "binary", bin |-> bs]

\* Remote() with its type and url assigned
Remote(type, url) == [t |-> "remote", rtype |-> type, url |-> url]

\* Magic(cast, **fields)
Magic(cast, fields) == [t |-> "record", mtype |-> cast, fields |-> fields]

\* Fault() with the attributes setattr gave it
Fault(attrs) == [t |-> "fault", attrs |-> attrs]

\* Call(): no headers, no method, no arguments
Call == [kind |-> "Call", headers |-> <<>>, method |-> NullV, args |-> <<>>,
         value |-> NullV]

\* Reply(): no headers, no value
Reply == [kind |-> "Reply", headers |-> <<>>, method |-> NullV, args |-> <<>>,
          value |-> NullV]

\* self._result = None
NoResult == [kind |-> "None", headers |-> <<>>, method |-> NullV, args |-> <<>>,
             value |-> NullV]

\* Parser._read_binary
ReadBinary(s, p) ==
    Then(ReadLen(s, p), LAMBDA len :
    Then(Read(s, len.pos, len.val), LAMBDA r : Ok(Binary(r.val), r.pos)))

---------------------------------------------------------------------------
(* Python's dict, str() and setattr, as far as the parser relies on them.  *)

\* The low 31 bits of a 32-bit i
Low31(i) == IF i < 0 THEN (i + 2147483647) + 1 ELSE i

\* The 8 two's complement bytes of a bool, an int or a long.
Num64(v) ==
    CASE v.t = "bool" -> <<0, 0, 0, 0, 0, 0, 0, IF v.b THEN 1 ELSE 0>>
      [] v.t = "int"  ->
           <<IF v.i < 0 THEN 255 ELSE 0, IF v.i < 0 THEN 255 ELSE 0,
             IF v.i < 0 THEN 255 ELSE 0, IF v.i < 0 THEN 255 ELSE 0,
             (Low31(v.i) \div 16777216) + (IF v.i < 0 THEN 128 ELSE 0),
             (Low31(v.i) \div 65536) % 256, (Low31(v.i) \div 256) % 256,
             Low31(v.i) % 256>>
      [] OTHER        -> v.q

IsAscii(bs) == \A k \in 1..Len(bs) : bs[k] < 128

RECURSIVE PyEq(_, _)
\* a == b for two decoded values (float64 is compared with float64 only;
\* every Binary, Remote, Magic and Fault is an object of its own)
PyEq(a, b) ==
    CASE a.t \in {"bool", "int", "long"} /\ b.t \in {"bool", "int", "long"}
             -> Num64(a) = Num64(b)
      [] a.t = "null" /\ b.t = "null" -> TRUE
      [] a.t = "str" /\ b.t = "str"   -> a.s = b.s
      [] a.t = "raw" /\ b.t = "raw"   -> a.r = b.r
      [] a.t = "str" /\ b.t = "raw"   -> IsAscii(b.r) /\ a.s = b.r
      [] a.t = "raw" /\ b.t = "str"   -> IsAscii(a.r) /\ a.r = b.s
      [] a.t = "strof" /\ b.t = "strof" -> a = b
      [] a.t = "double" /\ b.t = "double" -> a.d = b.d \/ (~Truthy(a) /\ ~Truthy(b))
      [] a.t = "date" /\ b.t = "date" -> a = b
      [] a.t = "tuple" /\ b.t = "tuple" ->
             /\ Len(a.m) = Len(b.m)
             /\ \A k \in 1..Len(a.m) : PyEq(a.m[k], b.m[k])
      [] OTHER -> FALSE

RECURSIVE Hashable(_)
\* whether hash(v) succeeds: a list and a dict have no hash
Hashable(v) ==
    CASE v.t \in {"list", "dict"} -> FALSE
      [] v.t = "tuple" -> \A k \in 1..Len(v.m) : Hashable(v.m[k])
      [] OTHER -> TRUE

\* d[k] = v on the items of a dict: an equal key keeps its place and its key
\* object and takes the new value, a new key is added.
DictSet(items, k, v) ==
    IF \E i \in 1..Len(items) : PyEq(items[i].k, k)
    THEN [i \in 1..Len(items) |->
              IF PyEq(items[i].k, k) THEN [k |-> items[i].k, v |-> v] ELSE items[i]]
    ELSE Append(items, [k |-> k, v |-> v])

RECURSIVE DecDigits(_)
\* the decimal digits of n >= 0, as characters
DecDigits(n) ==
    IF n < 10 THEN <<48 + n>> ELSE Append(DecDigits(n \div 10), 48 + (n % 10))

\* the decimal digits of m + 1, for m >= 0
DecDigitsSucc(m) ==
    IF m % 10 = 9 THEN Append(DecDigits(m \div 10 + 1), 48)
    ELSE Append(IF m < 10 THEN <<>> ELSE DecDigits(m \div 10), 48 + (m % 10) + 1)

\* str(i) for a 32-bit i
IntText(i) == IF i >= 0 THEN DecDigits(i) ELSE <<45>> \o DecDigitsSucc(-(i + 1))

\* str(v): [ok, val].  A unicode text is encoded as ASCII, which fails on any
\* code point above 127.
Str(v) ==
    CASE v.t = "null" -> [ok |-> TRUE, val |-> RawV(<<78, 111, 110, 101>>)]
      [] v.t = "bool" -> [ok |-> TRUE,
                          val |-> RawV(IF v.b THEN <<84, 114, 117, 101>>
                                       ELSE <<70, 97, 108, 115, 101>>)]
      [] v.t = "int"  -> [ok |-> TRUE, val |-> RawV(IntText(v.i))]
      [] v.t = "raw"  -> [ok |-> TRUE, val |-> v]
      [] v.t = "str"  -> IF IsAscii(v.s) THEN [ok |-> TRUE, val |-> RawV(v.s)]
                         ELSE [ok |-> FALSE, val |-> v]
      [] OTHER        -> [ok |-> TRUE, val |-> StrOfV(v)]

---------------------------------------------------------------------------
(* Dates: datetime.fromtimestamp(timestamp / 1000), `/' being Python 2's   *)
(* floor division of integers.                                             *)

RECURSIVE UDiv1000(_, _)
\* long division by 1000 of a big-endian base-256 numeral, carry < 1000
UDiv1000(bs, carry) ==
    IF bs = <<>> THEN <<>>
    ELSE <<(carry * 256 + bs[1]) \div 1000>>
         \o UDiv1000(Tail(bs), (carry * 256 + bs[1]) % 1000)

Not64(bs) == [k \in 1..Len(bs) |-> 255 - bs[k]]

\* floor(x / 1000) on 8 two's complement bytes
FloorDiv1000(bs) ==
    IF bs[1] < 128 THEN UDiv1000(bs, 0) ELSE Not64(UDiv1000(Not64(bs), 0))

\* the datetime of a whole second
DateV(secs) == [t |-> "date", secs |-> secs]

\* Parser._read_date
ReadDate(s, p) ==
    Then(ReadFixed(s, p, 8), LAMBDA r : Ok(DateV(FloorDiv1000(r.val)), r.pos))

---------------------------------------------------------------------------
(* The Value Decoder and the composite decoders it calls.  `p' is the      *)
(* position after the tag byte `code'.                                     *)

RECURSIVE ReadObject(_, _, _)
RECURSIVE ReadMembers(_, _, _, _)
RECURSIVE ReadPairs(_, _, _, _, _)

\* _read_object, code 's' or 'x': a non-terminal string chunk
ReadStringChunk(s, p, code) ==
    Then(ReadString(s, p), LAMBDA fragment :
    Then(ReadCode(s, fragment.pos), LAMBDA next :
         IF Lower(next.val) = code
         THEN Then(ReadObject(s, next.pos, next.val), LAMBDA rest :
                   Ok(StrV(fragment.val.s \o rest.val.s), rest.pos))
         ELSE Fail("ExpectedTerminalChunk", next.pos, FALSE)))

\* _read_object, code 'b': a non-terminal binary chunk.  _read_binary takes no
\* argument, so the call for the continuation raises TypeError; any other
\* next tag falls out of the if and the method returns None.
ReadBinaryChunk(s, p, code) ==
    Then(ReadBinary(s, p), LAMBDA fragment :
    Then(ReadCode(s, fragment.pos), LAMBDA next :
         IF Lower(next.val) = code THEN Fail("TypeError", next.pos, FALSE)
         ELSE Ok(NullV, next.pos)))

\* The optional 't' of a list, a map or a remote: on 't', the type name
\* (self._read(unpack('>H', self._read(2))[0])) and the tag after it; else no
\* type and the tag as it is.  val is [type, code].
ReadType(s, p, code) ==
    IF code # TAG_t THEN Ok([type |-> NullV, code |-> code], p)
    ELSE Then(ReadLen(s, p), LAMBDA len :
         Then(Read(s, len.pos, len.val), LAMBDA name :
         Then(ReadCode(s, name.pos), LAMBDA next :
              Ok([type |-> RawV(name.val), code |-> next.val], next.pos))))

\* Parser._read_remote
ReadRemote(s, p) ==
    Then(ReadCode(s, p), LAMBDA first :
    Then(ReadType(s, first.pos, first.val), LAMBDA ty :
         IF ty.val.code # TAG_s /\ ty.val.code # TAG_S
         THEN Fail("ExpectedString", ty.pos, FALSE)
         ELSE Then(ReadObject(s, ty.pos, ty.val.code), LAMBDA url :
                   Ok(Remote(ty.val.type, url.val), url.pos))))

\* ReadMembers that stops after one member without looking for the 'z'
ReadMembersUnclosed(s, p, code, members) ==
    IF code = TAG_z THEN Ok(members, p)
    ELSE Then(ReadObject(s, p, code), LAMBDA m : Ok(Append(members, m.val), m.pos))

\* the `while code != 'z'' loop of _read_list; val is the members
ReadMembers(s, p, code, members) ==
    IF code = TAG_z THEN Ok(members, p)
    ELSE Then(ReadObject(s, p, code), LAMBDA m :
         Then(ReadCode(s, m.pos), LAMBDA next :
              ReadMembers(s, next.pos, next.val, Append(members, m.val))))

\* The optional 'l' of a list: on 'l', the 4 bytes of the count, read and
\* dropped, and the tag after them.  val is [fixed, code].
ReadCount(s, p, code) ==
    IF code # TAG_l THEN Ok([fixed |-> FALSE, code |-> code], p)
    ELSE Then(Read(s, p, 4), LAMBDA count :
         Then(ReadCode(s, count.pos), LAMBDA next :
              Ok([fixed |-> TRUE, code |-> next.val], next.pos)))

\* cast(members): a tuple after 'l', a list otherwise
Cast(fixed, members) == IF fixed THEN TupleV(members) ELSE ListV(members)

\* Parser._read_list
ReadList(s, p) ==
    Then(ReadCode(s, p), LAMBDA first :
    Then(ReadType(s, first.pos, first.val), LAMBDA ty :
    Then(ReadCount(s, ty.pos, ty.val.code), LAMBDA cnt :
    Then(ReadMembers(s, cnt.pos, cnt.val.code, <<>>), LAMBDA ms :
         Ok(Cast(cnt.val.fixed, ms.val), ms.pos)))))

\* Parser._read_keyval once the key's tag is known (`first or self._read(1)':
\* a tag is one character, never falsy); val is [k, v]
ReadKeyval(s, p, first) ==
    Then(ReadObject(s, p, first), LAMBDA key :
    Then(ReadCode(s, key.pos), LAMBDA code :
    Then(ReadObject(s, code.pos, code.val), LAMBDA value :
         Ok([k |-> key.val, v |-> value.val], value.pos))))

\* fields[text] = value, text being the outcome of str(key)
StoreText(fields, text, value, p) ==
    IF text.ok THEN Ok(DictSet(fields, text.val, value), p)
    ELSE Fail("UnicodeEncodeError", p, FALSE)

\* fields[str(key)] = value under a type, fields[key] = value without; val is
\* the fields
MapStore(fields, cast, key, value, p) ==
    IF Truthy(cast) THEN StoreText(fields, Str(key), value, p)
    ELSE IF Hashable(key) THEN Ok(DictSet(fields, key, value), p)
    ELSE Fail("TypeError", p, FALSE)

\* the return of _read_map: Magic(cast, **fields) under a type, fields without
Mapped(cast, fields) == IF Truthy(cast) THEN Magic(cast, fields) ELSE DictV(fields)

\* the `while code != 'z'' loop of _read_map and the return after it
ReadPairs(s, p, code, cast, fields) ==
    IF code = TAG_z THEN Ok(Mapped(cast, fields), p)
    ELSE Then(ReadKeyval(s, p, code), LAMBDA kv :
         Then(MapStore(fields, cast, kv.val.k, kv.val.v, kv.pos), LAMBDA st :
         Then(ReadCode(s, st.pos), LAMBDA next :
              ReadPairs(s, next.pos, next.val, cast, st.val))))

\* Parser._read_map
ReadMap(s, p) ==
    Then(ReadCode(s, p), LAMBDA first :
    Then(ReadType(s, first.pos, first.val), LAMBDA ty :
         ReadPairs(s, ty.pos, ty.val.code, ty.val.type, <<>>)))

\* Parser._read_object
ReadObject(s, p, code) ==
    CASE code = TAG_N -> Ok(NullV, p)
      [] code = TAG_T -> Ok(BoolV(TRUE), p)
      [] code = TAG_F -> Ok(BoolV(FALSE), p)
      [] code = TAG_I -> Then(ReadFixed(s, p, 4), LAMBDA r : Ok(IntV(S32(r.val)), r.pos))
      [] code = TAG_L -> Then(ReadFixed(s, p, 8), LAMBDA r : Ok(LongV(r.val), r.pos))
      [] code = TAG_D -> Then(ReadFixed(s, p, 8), LAMBDA r : Ok(DoubleV(r.val), r.pos))
      [] code = TAG_d -> ReadDate(s, p)
      [] code = TAG_s \/ code = TAG_x -> ReadStringChunk(s, p, code)
      [] code = TAG_S \/ code = TAG_X -> ReadString(s, p)
      [] code = TAG_b -> ReadBinaryChunk(s, p, code)
      [] code = TAG_B -> ReadBinary(s, p)
      [] code = TAG_r -> ReadRemote(s, p)
      [] code = TAG_R -> Fail("NotImplementedError", p, FALSE)
      [] code = TAG_V -> ReadList(s, p)
      [] code = TAG_M -> ReadMap(s, p)
      [] OTHER        -> Fail("UnknownMarker", p, FALSE)

\* setattr(f, key, value): the name must be a string; a unicode name is
\* encoded as ASCII.  val is the attributes.
SetAttr(attrs, key, value, p) ==
    CASE key.t = "raw" -> Ok(DictSet(attrs, key, value), p)
      [] key.t = "str" -> IF IsAscii(key.s) THEN Ok(DictSet(attrs, RawV(key.s), value), p)
                          ELSE Fail("UnicodeEncodeError", p, FALSE)
      [] OTHER         -> Fail("TypeError", p, FALSE)

RECURSIVE ReadFaultFields(_, _, _, _)
\* the `for _ in range(3)' loop of _read_fault, n pairs still to read
ReadFaultFields(s, p, n, attrs) ==
    IF n = 0 THEN Ok(Fault(attrs), p)
    ELSE Then(ReadCode(s, p), LAMBDA code :
         Then(ReadKeyval(s, code.pos, code.val), LAMBDA kv :
         Then(SetAttr(attrs, kv.val.k, kv.val.v, kv.pos), LAMBDA st :
              ReadFaultFields(s, st.pos, n - 1, st.val))))

\* Parser._read_fault
ReadFault(s, p) == ReadFaultFields(s, p, 3, <<>>)

---------------------------------------------------------------------------
(* The Envelope Reader: Parser.parse_stream.  pc is "loop" while the       *)
(* `while True' loop runs, "done" once it returned self._result and        *)
(* "failed" once an exception left it; err names the exception (the        *)
(* sub-kind of a ParseError by its message, another exception by its       *)
(* class).  eof tells that the exception came of a read that ran into the *)
(* end of the stream.  tags is the history of the loop: the tag of every   *)
(* iteration that completed.                                               *)

\* `if self._result:' - a Call or a Reply is an object, which is true
HasResult == result.kind # "None"

\* code = self._read(1) at the top of the loop returned c
AtTag(c) == pc = "loop" /\ pos < Len(stream) /\ stream[pos + 1] = c

\* an exception leaves parse_stream
Raise(e, p, xe) ==
    /\ pc' = "failed"
    /\ err' = e
    /\ pos' = p
    /\ eof' = xe
    /\ UNCHANGED <<stream, result, tags>>

\* the loop goes on (`continue', or the end of the loop body)
Continue(res, p) ==
    /\ pc' = "loop"
    /\ pos' = p
    /\ result' = res
    /\ tags' = Append(tags, stream[pos + 1])
    /\ UNCHANGED <<stream, err, eof>>

\* what a decoding step leaves in the envelope: Put(v) for the v it returned
Settle(r, Put(_)) ==
    IF r.ok THEN Continue(Put(r.val), r.pos) ELSE Raise(r.err, r.pos, r.eof)

\* self._read(1) at the top of the loop finds the stream empty
EndOfStream ==
    /\ pc = "loop"
    /\ pos >= Len(stream)
    /\ pc' = "failed"
    /\ err' = "UnexpectedEndOfStream"
    /\ eof' = TRUE
    /\ UNCHANGED <<stream, pos, result, tags>>

\* ReadVersion without the test: any two bytes are taken for the version
ReadVersionUntested(s, p) ==
    Then(Read(s, p, 2), LAMBDA version : Ok(version.val, version.pos))

\* version = self._read(2) and its test
ReadVersion(s, p) ==
    Then(Read(s, p, 2), LAMBDA version :
         IF version.val # VERSION THEN Fail("UnsupportedVersion", version.pos, version.eof)
         ELSE Ok(version.val, version.pos))

\* ReadEnvelopeHeader without the test of self._result: a later kind tag
\* starts a new envelope
ReadEnvelopeHeaderAgain(envelope) ==
    Settle(ReadVersion(stream, pos + 1), LAMBDA v : envelope)

\* code 'c' or 'r': the envelope header
ReadEnvelopeHeader(envelope) ==
    IF HasResult THEN Raise("DuplicateEnvelopeHeader", pos + 1, FALSE)
    ELSE Settle(ReadVersion(stream, pos + 1), LAMBDA v : envelope)

ReadCallHeader == AtTag(TAG_c) /\ ReadEnvelopeHeader(Call)

ReadReplyHeader == AtTag(TAG_r) /\ ReadEnvelopeHeader(Reply)

\* InvalidMarker without the exception: the tag is passed over
InvalidMarkerPassed ==
    /\ pc = "loop" /\ pos < Len(stream)
    /\ stream[pos + 1] \notin {TAG_c, TAG_r}
    /\ ~HasResult
    /\ pos' = pos + 1
    /\ UNCHANGED <<stream, result, pc, err, eof, tags>>

\* any other code while self._result is None
InvalidMarker ==
    /\ pc = "loop" /\ pos < Len(stream)
    /\ stream[pos + 1] \notin {TAG_c, TAG_r}
    /\ ~HasResult
    /\ Raise("InvalidMarker", pos + 1, FALSE)

\* key, value = self._read_keyval() and the hash of the key that
\* headers[key] = value takes
ReadHeaderPair(s, p) ==
    Then(ReadCode(s, p), LAMBDA first :
    Then(ReadKeyval(s, first.pos, first.val), LAMBDA kv :
         IF Hashable(kv.val.k) THEN kv ELSE Fail("TypeError", kv.pos, FALSE)))

\* code 'H': a header pair
ReadHeader ==
    /\ AtTag(TAG_H) /\ HasResult
    /\ Settle(ReadHeaderPair(stream, pos + 1),
              LAMBDA kv : [result EXCEPT !.headers = DictSet(@, kv.k, kv.v)])

\* self._read(unpack('>H', self._read(2))[0]), the method name
ReadName(s, p) ==
    Then(ReadLen(s, p), LAMBDA len :
    Then(Read(s, len.pos, len.val), LAMBDA name : Ok(RawV(name.val), name.pos)))

\* ReadMethod without the test of self._result.method: a later name
\* replaces the first
ReadMethodOverwrite ==
    /\ AtTag(TAG_m) /\ HasResult
    /\ IF result.kind # "Call"
       THEN Raise("IllegalMethodOutsideCall", pos + 1, FALSE)
       ELSE Settle(ReadName(stream, pos + 1),
                   LAMBDA name : [result EXCEPT !.method = name])

\* code 'm': the method name
ReadMethod ==
    /\ AtTag(TAG_m) /\ HasResult
    /\ IF result.kind # "Call"
       THEN Raise("IllegalMethodOutsideCall", pos + 1, FALSE)
       ELSE IF Truthy(result.method)
       THEN Raise("DuplicateMethodName", pos + 1, FALSE)
       ELSE Settle(ReadName(stream, pos + 1),
                   LAMBDA name : [result EXCEPT !.method = name])

\* code 'f': a fault
ReadFaultTag ==
    /\ AtTag(TAG_f) /\ HasResult
    /\ IF result.kind # "Reply"
       THEN Raise("IllegalFaultOutsideReply", pos + 1, FALSE)
       ELSE IF Truthy(result.value)
       THEN Raise("IllegalExtraValue", pos + 1, FALSE)
       ELSE Settle(ReadFault(stream, pos + 1),
                   LAMBDA f : [result EXCEPT !.value = f])

\* ReadTerminator without the break: the 'z' is looked at and the loop stays
\* where it is
ReadTerminatorIgnored ==
    /\ AtTag(TAG_z) /\ HasResult
    /\ UNCHANGED vars

\* ReadTerminator that looks at the byte after the 'z' before it returns
ReadTerminatorAhead ==
    /\ AtTag(TAG_z) /\ HasResult
    /\ pc' = "done"
    /\ pos' = IF pos + 1 < Len(stream) THEN pos + 2 ELSE pos + 1
    /\ tags' = Append(tags, TAG_z)
    /\ UNCHANGED <<stream, result, err, eof>>

\* code 'z': break, return self._result
ReadTerminator ==
    /\ AtTag(TAG_z) /\ HasResult
    /\ pc' = "done"
    /\ pos' = pos + 1
    /\ tags' = Append(tags, TAG_z)
    /\ UNCHANGED <<stream, result, err, eof>>

\* ReadValue with an argument put in front of the others instead of after
ReadValuePrepend ==
    /\ pc = "loop" /\ pos < Len(stream) /\ HasResult
    /\ stream[pos + 1] \notin {TAG_c, TAG_r, TAG_H, TAG_m, TAG_f, TAG_z}
    /\ IF result.kind = "Call"
       THEN Settle(ReadObject(stream, pos + 1, stream[pos + 1]),
                   LAMBDA v : [result EXCEPT !.args = <<v>> \o @])
       ELSE IF Truthy(result.value)
       THEN Raise("IllegalExtraValue", pos + 1, FALSE)
       ELSE Settle(ReadObject(stream, pos + 1, stream[pos + 1]),
                   LAMBDA v : [result EXCEPT !.value = v])

\* any other code: an argument of the Call, the value of the Reply
ReadValue ==
    /\ pc = "loop" /\ pos < Len(stream) /\ HasResult
    /\ stream[pos + 1] \notin {TAG_c, TAG_r, TAG_H, TAG_m, TAG_f, TAG_z}
    /\ IF result.kind = "Call"
       THEN Settle(ReadObject(stream, pos + 1, stream[pos + 1]),
                   LAMBDA v : [result EXCEPT !.args = Append(@, v)])
       ELSE IF Truthy(result.value)
       THEN Raise("IllegalExtraValue", pos + 1, FALSE)
       ELSE Settle(ReadObject(stream, pos + 1, stream[pos + 1]),
                   LAMBDA v : [result EXCEPT !.value = v])

Next ==
    \/ EndOfStream
    \/ ReadCallHeader
    \/ ReadReplyHeader
    \/ InvalidMarker
    \/ ReadHeader
    \/ ReadMethod
    \/ ReadFaultTag
    \/ ReadTerminator
    \/ ReadValue

\* parse_stream is entered with a stream: nothing read, self._result = None
Start(streams) ==
    /\ stream \in streams
    /\ pos = 0
    /\ result = NoResult
    /\ pc = "loop"
    /\ err = ""
    /\ eof = FALSE
    /\ tags = <<>>

---------------------------------------------------------------------------
(* The streams the parser is run on: a prefix followed by up to MaxBody    *)
(* fragments.                                                              *)

MaxBody == 3

Cat(A, B) == {a \o b : a \in A, b \in B}

RECURSIVE Bodies(_, _)
Bodies(F, n) == IF n = 0 THEN {<<>>} ELSE {<<>>} \cup Cat(F, Bodies(F, n - 1))

Call10  == <<TAG_c>> \o VERSION
Reply10 == <<TAG_r>> \o VERSION
EmptyS  == <<TAG_S, 0, 0>>
TextA   == <<TAG_S, 0, 1, 97>>
Zero    == <<TAG_I, 0, 0, 0, 0>>
FaultA  == <<TAG_f>> \o TextA \o <<TAG_N>> \o TextA \o <<TAG_T>> \o TextA \o <<TAG_N>>

EnvPrefixes == {<<>>, Call10, Reply10, <<TAG_c, 1>>, <<TAG_r, 1, 1>>}

EnvFragments ==
    { <<TAG_N>>, <<TAG_T>>, Zero, EmptyS, <<TAG_V, TAG_z>>,
      <<TAG_m, 0, 1, 97>>, <<TAG_m, 0, 0>>, FaultA, <<TAG_H>> \o TextA \o <<TAG_N>>,
      <<TAG_z>>, Call10, Reply10, <<TAG_R>>, <<TAG_I, 0, 0>> }

\* envelopes: kind tags, body tags and values in any order
EnvStreams == Cat(EnvPrefixes, Bodies(EnvFragments, MaxBody))

Init == Start(EnvStreams)

Spec == Init /\ [][Next]_vars

\* a few streams that take the loop through every branch
CoverStreams ==
    { <<>>, <<TAG_N>>, <<TAG_c, 1>>,
      Call10 \o <<TAG_H>> \o TextA \o <<TAG_N>> \o <<TAG_m, 0, 1, 97>> \o <<TAG_T, TAG_z>>,
      Reply10 \o FaultA \o <<TAG_z>> }

Envelopes == {Call10, Reply10}

\* texts: terminal and non-terminal chunks of one character of every width,
\* at both ends of every range of lead bytes
TextFragments ==
    { <<TAG_s, 0, 1, 97>>, <<TAG_S, 0, 1, 98>>, <<TAG_x, 0, 1, 99>>, <<TAG_X, 0, 1, 100>>,
      <<TAG_s, 0, 1, 127>>, <<TAG_S, 0, 1, 127>>, EmptyS,
      <<TAG_S, 0, 3, 195, 169, 97, 98>>,
      <<TAG_S, 0, 1, 194, 128>>, <<TAG_S, 0, 1, 223, 191>>,
      <<TAG_S, 0, 1, 224, 160, 128>>, <<TAG_S, 0, 1, 239, 191, 189>>,
      <<TAG_S, 0, 1, 240, 144, 128, 128>>, <<TAG_S, 0, 1, 244, 143, 191, 191>>,
      <<TAG_N>>, <<TAG_z>> }

TextStreams == CoverStreams \cup Cat(Envelopes, Bodies(TextFragments, MaxBody))

InitText == Start(TextStreams)

SpecText == InitText /\ [][Next]_vars

\* binaries: non-terminal and terminal chunks, an empty one, one cut short
BinaryFragments ==
    { <<TAG_b, 0, 1, 97>>, <<TAG_b, 0, 2, 98, 99>>, <<TAG_B, 0, 1, 100>>,
      <<TAG_B, 0, 0>>, <<TAG_B, 0, 3, 101>>, <<TAG_N>>, <<TAG_T>>, <<TAG_z>> }

BinaryStreams == CoverStreams \cup Cat(Envelopes, Bodies(BinaryFragments, MaxBody))

InitBinary == Start(BinaryStreams)

SpecBinary == InitBinary /\ [][Next]_vars

\* the optional type of a list or a map: none, a name, the empty name
TypeOptions == {<<>>, <<TAG_t, 0, 1, 65>>, <<TAG_t, 0, 0>>}

\* the optional count of a list: none, 0, 2, 9
CountOptions ==
    {<<>>, <<TAG_l, 0, 0, 0, 0>>, <<TAG_l, 0, 0, 0, 2>>, <<TAG_l, 0, 0, 0, 9>>}

ListItems ==
    { <<TAG_N>>, <<TAG_T>>, Zero, TextA, <<TAG_V, TAG_z>>,
      <<TAG_V, TAG_l, 0, 0, 0, 1, TAG_N, TAG_z>>, <<TAG_M, TAG_z>> }

Closings == {<<>>, <<TAG_z>>, <<TAG_z, TAG_z>>}

\* lists: V, a type or none, a count or none, up to MaxBody members, and none,
\* one or two terminators
ListStreams ==
    CoverStreams
    \cup Cat(Envelopes, Cat({<<TAG_V>>}, Cat(TypeOptions, Cat(CountOptions,
             Cat(Bodies(ListItems, MaxBody), Closings)))))

InitList == Start(ListStreams)

SpecList == InitList /\ [][Next]_vars

\* keys: two texts, a text above ASCII, the int 1, the text "1", true, a list
MapKeys ==
    { TextA, <<TAG_S, 0, 1, 98>>, <<TAG_S, 0, 1, 195, 169>>, <<TAG_I, 0, 0, 0, 1>>,
      <<TAG_S, 0, 1, 49>>, <<TAG_T>>, <<TAG_V, TAG_z>> }

MapPairs == Cat(MapKeys, {<<TAG_N>>, <<TAG_T>>})

\* maps: M, a type or none, up to MaxBody pairs, and none, one or two
\* terminators
MapStreams ==
    CoverStreams
    \cup Cat(Envelopes, Cat({<<TAG_M>>}, Cat({<<>>, <<TAG_t, 0, 1, 65>>},
             Cat(Bodies(MapPairs, MaxBody), Closings))))

InitMap == Start(MapStreams)

SpecMap == InitMap /\ [][Next]_vars

---------------------------------------------------------------------------
(* Properties of the Envelope Reader.                                      *)

Range(seq) == {seq[i] : i \in 1..Len(seq)}

\* an envelope-level tag that stands for a value
IsValueTag(c) == c \notin {TAG_c, TAG_r, TAG_H, TAG_m, TAG_f, TAG_z}

\* the loop is about to read tag c
NextTag(c) == pc = "loop" /\ pos < Len(stream) /\ stream[pos + 1] = c

NextIsValueTag == pc = "loop" /\ pos < Len(stream) /\ IsValueTag(stream[pos + 1])

\* an earlier iteration decoded a value, a fault, a method name
ValueDecoded  == \E i \in 1..Len(tags) : IsValueTag(tags[i])
FaultDecoded  == TAG_f \in Range(tags)
MethodDecoded == TAG_m \in Range(tags)

FailsWith(e) == pc' = "failed" /\ err' = e /\ result' = result

(* C1: once a value has been decoded into a Reply, whatever the value, a    *)
(* later value tag at envelope level fails the parse with IllegalExtraValue *)
(* and the stored value is not replaced.                                    *)
C1_ValueSetOnce ==
    [][ (result.kind = "Reply" /\ ValueDecoded /\ NextIsValueTag)
            => FailsWith("IllegalExtraValue") ]_vars

(* C2: a fault is accepted only on a Reply that holds neither a value nor a *)
(* fault: 'f' fails with IllegalFaultOutsideReply on a Call and with        *)
(* IllegalExtraValue on a Reply whose value or fault was set; a value tag   *)
(* read after a fault fails with IllegalExtraValue.                         *)
C2_FaultExcludesValue ==
    [][ /\ (NextTag(TAG_f) /\ result.kind = "Call")
               => FailsWith("IllegalFaultOutsideReply")
        /\ (NextTag(TAG_f) /\ result.kind = "Reply" /\ (ValueDecoded \/ FaultDecoded))
               => FailsWith("IllegalExtraValue")
        /\ (NextIsValueTag /\ result.kind = "Reply" /\ FaultDecoded)
               => FailsWith("IllegalExtraValue") ]_vars

(* C3: an 'm' tag on a Reply fails with IllegalMethodOutsideCall; an 'm'    *)
(* tag on a Call that already read a method name fails with                 *)
(* DuplicateMethodName; a method name, once set, is never overwritten.      *)
C3_MethodSetOnce ==
    [][ /\ (NextTag(TAG_m) /\ result.kind = "Reply")
               => FailsWith("IllegalMethodOutsideCall")
        /\ (NextTag(TAG_m) /\ result.kind = "Call" /\ MethodDecoded)
               => FailsWith("DuplicateMethodName")
        /\ MethodDecoded => result'.method = result.method ]_vars

\* a second 'm' was refused and the first name is still there
C3_Witness ==
    /\ pc = "failed" /\ err = "DuplicateMethodName"
    /\ result.kind = "Call" /\ result.method = RawV(<<97>>)
    /\ MethodDecoded

(* C4: the envelope is created exactly once and its kind never changes: a   *)
(* 'c' or 'r' read once the envelope exists fails with                      *)
(* DuplicateEnvelopeHeader and changes nothing, the first tag accepted is   *)
(* the kind tag, and any other tag read before it is refused.               *)
C4_OneEnvelope ==
    [][ /\ HasResult => result'.kind = result.kind
        /\ ((NextTag(TAG_c) \/ NextTag(TAG_r)) /\ HasResult)
               => (FailsWith("DuplicateEnvelopeHeader") /\ tags' = tags)
        /\ ~HasResult => tags = <<>>
        /\ (~HasResult /\ HasResult')
               => /\ NextTag(TAG_c) \/ NextTag(TAG_r)
                  /\ tags' = <<stream[pos + 1]>>
                  /\ result'.kind = (IF stream[pos + 1] = TAG_c THEN "Call" ELSE "Reply")
        /\ (~HasResult /\ pc = "loop" /\ pos < Len(stream)
                /\ stream[pos + 1] \notin {TAG_c, TAG_r})
               => (pc' = "failed" /\ ~HasResult' /\ tags' = tags) ]_vars

\* a second kind tag was refused after the Call had taken body tags
C4_Witness ==
    /\ pc = "failed" /\ err = "DuplicateEnvelopeHeader"
    /\ result.kind = "Call" /\ Len(tags) >= 2 /\ tags[1] = TAG_c

(* C5: a parse returns only after a 'z' read at envelope level, and a       *)
(* parse that runs into the end of the stream fails with                    *)
(* UnexpectedEndOfStream.                                                   *)
C5_EndOfStreamFails ==
    /\ pc = "done" => (tags # <<>> /\ tags[Len(tags)] = TAG_z)
    /\ eof => (pc = "failed" /\ err = "UnexpectedEndOfStream")

---------------------------------------------------------------------------
(* Properties of the Value Decoder.  What a value should decode to is read  *)
(* off the wire format, bytes against tags and length fields, and compared  *)
(* with what the step of the loop stored.                                   *)

\* the loop is about to hand the next tag to the Value Decoder
Decoding ==
    NextIsValueTag /\ HasResult /\ (result.kind = "Call" \/ ~Truthy(result.value))

\* the value the step stored: the last argument of a Call, the value of a Reply
NewValue ==
    IF result'.kind = "Call" THEN result'.args[Len(result'.args)] ELSE result'.value

\* the step decoded v and left the stream at p
Stored(v, p) == pc' = "loop" /\ pos' = p /\ NewValue = v

Wire(kind, v, p) == [kind |-> kind, val |-> v, pos |-> p]

RECURSIVE WireBinary(_, _, _, _)
\* The chunks of a binary from position p, just after a chunk's tag: the
\* bytes of all chunks up to and including the terminal one ("ok"), a chunk
\* followed by a tag that is neither 'b' nor 'B' ("badtag"), or a stream that
\* does not hold the bytes its length fields announce ("short").
WireBinary(s, p, terminal, bytes) ==
    IF p + 2 > Len(s) \/ p + 2 + U16(SubSeq(s, p + 1, p + 2)) > Len(s)
    THEN Wire("short", <<>>, p)
    ELSE LET q   == p + 2 + U16(SubSeq(s, p + 1, p + 2))
             all == bytes \o SubSeq(s, p + 3, q)
         IN  IF terminal THEN Wire("ok", all, q)
             ELSE IF q >= Len(s) THEN Wire("short", <<>>, q)
             ELSE IF s[q + 1] = TAG_b THEN WireBinary(s, q + 1, FALSE, all)
             ELSE IF s[q + 1] = TAG_B THEN WireBinary(s, q + 1, TRUE, all)
             ELSE Wire("badtag", <<>>, q + 1)

(* C6: k >= 1 'b' chunks followed by a terminal 'B' chunk decode to the     *)
(* binary whose bytes are all the chunks' bytes in stream order, and a 'b'  *)
(* chunk followed by a tag that is neither 'b' nor 'B' fails the parse.     *)
C6_BinaryChunksConcatenate ==
    [][ (Decoding /\ NextTag(TAG_b))
            => /\ WireBinary(stream, pos + 1, FALSE, <<>>).kind = "ok"
                   => Stored(Binary(WireBinary(stream, pos + 1, FALSE, <<>>).val),
                             WireBinary(stream, pos + 1, FALSE, <<>>).pos)
               /\ WireBinary(stream, pos + 1, FALSE, <<>>).kind = "badtag"
                   => pc' = "failed" ]_vars

\* Continuation bytes after lead byte b by the table of the String Decoder,
\* bounds inclusive; -1 for a byte that leads no character.
WireExtra(b) ==
    CASE b >= 0   /\ b <= 127 -> 0
      [] b >= 194 /\ b <= 223 -> 1
      [] b >= 224 /\ b <= 239 -> 2
      [] b >= 240 /\ b <= 244 -> 3
      [] OTHER                -> -1

RECURSIVE WireChars(_, _, _, _)
\* n well-formed characters from position p: their code points and the
\* position after their last byte
WireChars(s, p, n, cps) ==
    IF n = 0 THEN Wire("ok", cps, p)
    ELSE IF \/ p >= Len(s)
            \/ WireExtra(s[p + 1]) = -1
            \/ p + 1 + WireExtra(s[p + 1]) > Len(s)
            \/ ~Utf8WellFormed(SubSeq(s, p + 1, p + 1 + WireExtra(s[p + 1])))
    THEN Wire("short", <<>>, p)
    ELSE WireChars(s, p + 1 + WireExtra(s[p + 1]), n - 1,
                   Append(cps, Utf8CodePoint(SubSeq(s, p + 1, p + 1 + WireExtra(s[p + 1])))))

\* one string chunk from position p, just after its tag: the count field and
\* that many characters
WireString(s, p) ==
    IF p + 2 > Len(s) THEN Wire("short", <<>>, p)
    ELSE WireChars(s, p + 2, U16(SubSeq(s, p + 1, p + 2)), <<>>)

RECURSIVE WireChunked(_, _, _, _, _)
\* The chunks of a string whose non-terminal chunks have tag lo, from
\* position p just after a chunk's tag: the text of all chunks up to and
\* including the terminal one ("ok"), or a non-terminal chunk followed by a
\* tag that, lower-cased, is not lo ("badtag").
WireChunked(s, p, lo, terminal, cps) ==
    LET c == WireString(s, p)
    IN  IF c.kind # "ok" THEN c
        ELSE IF terminal THEN Wire("ok", cps \o c.val, c.pos)
        ELSE IF c.pos >= Len(s) THEN Wire("short", <<>>, c.pos)
        ELSE IF Lower(s[c.pos + 1]) # lo THEN Wire("badtag", <<>>, c.pos + 1)
        ELSE WireChunked(s, c.pos + 1, lo, s[c.pos + 1] # lo, cps \o c.val)

\* a step on a non-terminal string chunk stores the text of all the chunks,
\* or fails on a tag that continues nothing
ChunkedStringStep ==
    \A lo \in {TAG_s, TAG_x} :
        (Decoding /\ NextTag(lo))
            => /\ WireChunked(stream, pos + 1, lo, FALSE, <<>>).kind = "ok"
                   => Stored(StrV(WireChunked(stream, pos + 1, lo, FALSE, <<>>).val),
                             WireChunked(stream, pos + 1, lo, FALSE, <<>>).pos)
               /\ WireChunked(stream, pos + 1, lo, FALSE, <<>>).kind = "badtag"
                   => (pc' = "failed" /\ err' = "ExpectedTerminalChunk")

(* C7: k >= 1 non-terminal chunks 's' (resp. 'x') followed by a chunk 'S'   *)
(* (resp. 'X') decode to the text of all chunks in stream order; a tag      *)
(* after a non-terminal chunk that, lower-cased, differs from the chunk's   *)
(* tag fails the parse with ExpectedTerminalChunk.                          *)
C7_ChunkedString == [][ChunkedStringStep]_vars

\* no byte of the stream is the upper bound of a range of lead bytes
NoBoundLead == \A i \in 1..Len(stream) : stream[i] \notin {127, 223, 239, 244}

\* The concatenation itself: it holds of every chunked string none of whose
\* characters starts with the upper bound of a range.
ChunkedStringInsideRanges == [][NoBoundLead => ChunkedStringStep]_vars

\* a chunked string was put together from three chunks
ChunkedStringInsideRangesWitness ==
    /\ pc = "loop" /\ result.kind = "Call" /\ tags = <<TAG_c, TAG_s>>
    /\ result.args = <<StrV(<<97, 97, 98>>)>>

(* C8: for a count n and n well-formed characters with lead bytes in        *)
(* 0x00-0x7F, 0xC2-0xDF, 0xE0-0xEF or 0xF0-0xF4, bounds inclusive, the      *)
(* String Decoder consumes exactly the bytes of those n characters after    *)
(* the count field and returns the text of exactly those n characters.      *)
C8_CountsCharacters ==
    [][ \A tag \in {TAG_S, TAG_X} :
            (Decoding /\ NextTag(tag) /\ WireString(stream, pos + 1).kind = "ok")
                => Stored(StrV(WireString(stream, pos + 1).val),
                          WireString(stream, pos + 1).pos) ]_vars

\* The optional 't' at position p: whether it is there, the name after it
\* (of any length, 0 included) and the position of the tag that follows.
WireType(s, p) ==
    IF p >= Len(s) THEN [ok |-> FALSE, typed |-> FALSE, name |-> <<>>, pos |-> p]
    ELSE IF s[p + 1] # TAG_t THEN [ok |-> TRUE, typed |-> FALSE, name |-> <<>>, pos |-> p]
    ELSE IF p + 3 > Len(s) \/ p + 3 + U16(SubSeq(s, p + 2, p + 3)) > Len(s)
    THEN [ok |-> FALSE, typed |-> TRUE, name |-> <<>>, pos |-> p]
    ELSE [ok |-> TRUE, typed |-> TRUE,
          name |-> SubSeq(s, p + 4, p + 3 + U16(SubSeq(s, p + 2, p + 3))),
          pos |-> p + 3 + U16(SubSeq(s, p + 2, p + 3))]

\* The optional 'l' at position p and its 4 bytes: whether it is there and
\* the position of the tag that follows.
WireCount(s, p) ==
    IF p >= Len(s) THEN [ok |-> FALSE, fixed |-> FALSE, pos |-> p]
    ELSE IF s[p + 1] # TAG_l THEN [ok |-> TRUE, fixed |-> FALSE, pos |-> p]
    ELSE [ok |-> p + 5 <= Len(s), fixed |-> TRUE, pos |-> p + 5]

RECURSIVE WireMembers(_, _, _)
\* the values from the tag at position p up to the 'z' that ends them
WireMembers(s, p, members) ==
    IF p >= Len(s) THEN [ok |-> FALSE, val |-> <<>>, pos |-> p]
    ELSE IF s[p + 1] = TAG_z THEN [ok |-> TRUE, val |-> members, pos |-> p + 1]
    ELSE LET m == ReadObject(s, p + 1, s[p + 1])
         IN  IF ~m.ok THEN [ok |-> FALSE, val |-> <<>>, pos |-> m.pos]
             ELSE WireMembers(s, m.pos, Append(members, m.val))

\* a list from position p, just after its 'V'
WireList(s, p) ==
    LET ty  == WireType(s, p)
        cnt == WireCount(s, ty.pos)
        ms  == WireMembers(s, cnt.pos, <<>>)
    IN  IF ~ty.ok \/ ~cnt.ok \/ ~ms.ok THEN [ok |-> FALSE, val |-> NullV, pos |-> p]
        ELSE [ok |-> TRUE, pos |-> ms.pos,
              val |-> IF cnt.fixed THEN TupleV(ms.val) ELSE ListV(ms.val)]

\* a step on a list stores the values before its 'z', as a tuple after 'l';
\* with named, lists with an empty type name are left out
ListStep(named) ==
    (/\ Decoding /\ NextTag(TAG_V) /\ WireList(stream, pos + 1).ok
     /\ named => ~(WireType(stream, pos + 1).typed
                     /\ WireType(stream, pos + 1).name = <<>>))
        => Stored(WireList(stream, pos + 1).val, WireList(stream, pos + 1).pos)

(* C9: a 'V' value with an optional 't' type and an optional 'l' count c    *)
(* decodes to the values read before the matching 'z', in read order,       *)
(* whatever c is: fixed-arity exactly when 'l' was there, growable          *)
(* otherwise, and whatever the type name is.                                *)
C9_ListScansToTerminator == [][ListStep(FALSE)]_vars

\* The scan itself: it holds of every list whose type name is not empty.
ListOfNamedTypeScansToTerminator == [][ListStep(TRUE)]_vars

\* a typed list with a count of 9 came out as the tuple of its two members
ListOfNamedTypeWitness ==
    /\ pc = "loop" /\ result.kind = "Call" /\ tags = <<TAG_c, TAG_V>>
    /\ Len(stream) >= 13 /\ stream[5] = TAG_t /\ stream[9] = TAG_l /\ stream[13] = 9
    /\ result.args = <<TupleV(<<NullV, BoolV(TRUE)>>)>>

RECURSIVE WirePairs(_, _, _)
\* the key/value pairs from the tag at position p up to the 'z' that ends them
WirePairs(s, p, pairs) ==
    IF p >= Len(s) THEN [ok |-> FALSE, val |-> <<>>, pos |-> p]
    ELSE IF s[p + 1] = TAG_z THEN [ok |-> TRUE, val |-> pairs, pos |-> p + 1]
    ELSE LET key == ReadObject(s, p + 1, s[p + 1])
         IN  IF ~key.ok \/ key.pos >= Len(s) THEN [ok |-> FALSE, val |-> <<>>, pos |-> p]
             ELSE LET value == ReadObject(s, key.pos + 1, s[key.pos + 1])
                  IN  IF ~value.ok THEN [ok |-> FALSE, val |-> <<>>, pos |-> p]
                      ELSE WirePairs(s, value.pos,
                                     Append(pairs, [k |-> key.val, v |-> value.val]))

\* the text form of a key: a text is its own text form
TextForm(k) == IF k.t = "str" THEN k ELSE Str(k).val

RECURSIVE LastWins(_, _, _)
\* the mapping of the pairs, a later pair taking the place of an earlier one
\* of an equal key; with text, keys are taken in their text form
LastWins(pairs, text, fields) ==
    IF pairs = <<>> THEN fields
    ELSE LastWins(Tail(pairs), text,
                  DictSet(fields,
                          IF text THEN TextForm(Head(pairs).k) ELSE Head(pairs).k,
                          Head(pairs).v))

\* two mappings of equal keys and the same values
SameItems(a, b) ==
    /\ Len(a) = Len(b)
    /\ \A i \in 1..Len(a) : PyEq(a[i].k, b[i].k) /\ a[i].v = b[i].v

\* a map from position p, just after its 'M'
WireMap(s, p) ==
    LET ty == WireType(s, p)
        ps == WirePairs(s, ty.pos, <<>>)
    IN  [ok |-> ty.ok /\ ps.ok, typed |-> ty.typed, name |-> ty.name,
         items |-> LastWins(ps.val, ty.typed, <<>>), pos |-> ps.pos]

(* C10: a map decodes to a TypedRecord exactly when a 't' tag is present:   *)
(* a typed map yields a TypedRecord of that type name with one field per    *)
(* key, the key in its text form; an untyped map yields a mapping keyed by  *)
(* the decoded keys; pairs are read up to the matching 'z' and the last     *)
(* pair of a duplicate key wins.                                            *)
C10_MapByType ==
    [][ (Decoding /\ NextTag(TAG_M) /\ WireMap(stream, pos + 1).ok)
            => /\ pc' = "loop"
               /\ pos' = WireMap(stream, pos + 1).pos
               /\ IF WireMap(stream, pos + 1).typed
                  THEN /\ NewValue.t = "record"
                       /\ NewValue.mtype = RawV(WireMap(stream, pos + 1).name)
                       /\ SameItems(NewValue.fields, WireMap(stream, pos + 1).items)
                  ELSE /\ NewValue.t = "dict"
                       /\ SameItems(NewValue.items, WireMap(stream, pos + 1).items) ]_vars

---------------------------------------------------------------------------
(* Back-references.                                                        *)

\* tokens of which streams with 'R' in every place of a value are made
RefFragments ==
    { <<TAG_R>>, <<TAG_N>>, TextA, <<TAG_V>>, <<TAG_M>>, <<TAG_z>>, <<TAG_H>>,
      <<TAG_f>>, <<TAG_t, 0, 1, 65>> }

RefStreams == CoverStreams \cup Cat(Envelopes, Bodies(RefFragments, MaxBody))

InitRef == Start(RefStreams)

SpecRef == InitRef /\ [][Next]_vars

\* a type, if any, whose name is not empty
Named(ty) == ty.ok /\ (ty.typed => ty.name # <<>>)

RECURSIVE RefInValue(_, _)
RECURSIVE RefInMembers(_, _)
RECURSIVE RefInPairs(_, _)

\* a key and a value are expected at position p, and the first tag that does
\* not decode, of the key or of the value, is 'R'
RefInKeyval(s, p) ==
    \/ RefInValue(s, p)
    \/ /\ p < Len(s)
       /\ ReadObject(s, p + 1, s[p + 1]).ok
       /\ RefInValue(s, ReadObject(s, p + 1, s[p + 1]).pos)

\* a value is expected at position p, and the first tag that does not decode,
\* of the value or of a value inside it, is 'R'
RefInValue(s, p) ==
    /\ p < Len(s)
    /\ CASE s[p + 1] = TAG_R -> TRUE
         [] s[p + 1] = TAG_V ->
              /\ Named(WireType(s, p + 1))
              /\ WireCount(s, WireType(s, p + 1).pos).ok
              /\ RefInMembers(s, WireCount(s, WireType(s, p + 1).pos).pos)
         [] s[p + 1] = TAG_M ->
              /\ Named(WireType(s, p + 1))
              /\ RefInPairs(s, WireType(s, p + 1).pos)
         [] OTHER -> FALSE

RefInMembers(s, p) ==
    /\ p < Len(s)
    /\ s[p + 1] # TAG_z
    /\ \/ RefInValue(s, p)
       \/ /\ ReadObject(s, p + 1, s[p + 1]).ok
          /\ RefInMembers(s, ReadObject(s, p + 1, s[p + 1]).pos)

RefInPairs(s, p) ==
    /\ p < Len(s)
    /\ s[p + 1] # TAG_z
    /\ \/ RefInKeyval(s, p)
       \/ /\ ReadKeyval(s, p + 1, s[p + 1]).ok
          /\ Hashable(ReadKeyval(s, p + 1, s[p + 1]).val.k)
          /\ RefInPairs(s, ReadKeyval(s, p + 1, s[p + 1]).pos)

RECURSIVE RefInFault(_, _, _)
\* n pairs of a fault are expected at position p
RefInFault(s, p, n) ==
    /\ n > 0
    /\ p < Len(s)
    /\ \/ RefInKeyval(s, p)
       \/ /\ ReadKeyval(s, p + 1, s[p + 1]).ok
          /\ ReadKeyval(s, p + 1, s[p + 1]).val.k.t = "str"
          /\ RefInFault(s, ReadKeyval(s, p + 1, s[p + 1]).pos, n - 1)

\* the step of the loop is about to meet 'R' where it expects a value: as an
\* argument or the value of a Reply, in a header, in a fault, in a list or map
RefExpected ==
    /\ pc = "loop" /\ HasResult /\ pos < Len(stream)
    /\ CASE stream[pos + 1] = TAG_H -> RefInKeyval(stream, pos + 1)
         [] stream[pos + 1] = TAG_f ->
              /\ result.kind = "Reply" /\ ~Truthy(result.value)
              /\ RefInFault(stream, pos + 1, 3)
         [] stream[pos + 1] \in {TAG_c, TAG_r, TAG_m, TAG_z} -> FALSE
         [] OTHER -> Decoding /\ RefInValue(stream, pos)

(* C11: tag 'R' where a value is expected (argument of a Call, value of a   *)
(* Reply, key or value of a header, member of a list, key or value of a     *)
(* map, field of a fault) fails the parse with UnsupportedBackReference, an *)
(* error of the parser's own kind, and yields no value.                     *)
C11_BackReferenceFails ==
    [][ RefExpected
            => (pc' = "failed" /\ err' = "UnsupportedBackReference" /\ result' = result) ]_vars

\* 'R' does stop the parse and stores nothing, whatever the error
BackReferenceStops == [][RefExpected => (pc' = "failed" /\ result' = result)]_vars

---------------------------------------------------------------------------
(* The envelope that a parse returns.                                      *)

RECURSIVE WireArgs(_, _, _)
\* The values at the tags of a Call, from position p up to its 'z', that are
\* not 'H', 'm' or 'z', in stream order; ok unless the stream ends or a tag
\* does not decode before the 'z'.
WireArgs(s, p, args) ==
    IF p >= Len(s) THEN [ok |-> FALSE, val |-> args]
    ELSE CASE s[p + 1] = TAG_z -> [ok |-> TRUE, val |-> args]
           [] s[p + 1] = TAG_H ->
                IF ReadHeaderPair(s, p + 1).ok
                THEN WireArgs(s, ReadHeaderPair(s, p + 1).pos, args)
                ELSE [ok |-> FALSE, val |-> args]
           [] s[p + 1] = TAG_m ->
                IF ReadName(s, p + 1).ok
                THEN WireArgs(s, ReadName(s, p + 1).pos, args)
                ELSE [ok |-> FALSE, val |-> args]
           [] s[p + 1] \in {TAG_c, TAG_r, TAG_f} -> [ok |-> FALSE, val |-> args]
           [] OTHER ->
                IF ReadObject(s, p + 1, s[p + 1]).ok
                THEN WireArgs(s, ReadObject(s, p + 1, s[p + 1]).pos,
                              Append(args, ReadObject(s, p + 1, s[p + 1]).val))
                ELSE [ok |-> FALSE, val |-> args]

IsPrefix(a, b) == Len(a) <= Len(b) /\ SubSeq(b, 1, Len(a)) = a

\* how many of the tags read so far are c
Count(c) == Cardinality({i \in 1..Len(tags) : tags[i] = c})

(* C12: the args of a Call only grow, at their end: when a Call parse       *)
(* returns, args is the sequence of the values decoded at the envelope-level*)
(* tags other than 'H', 'm' and 'z', in stream order, and headers, method   *)
(* and args hold nothing the stream did not set; c 0x01 0x00 z yields a     *)
(* Call with no headers, no method and no args.                             *)
C12_CallArgs ==
    [][ /\ (result.kind = "Call" /\ result'.kind = "Call")
            => /\ IsPrefix(result.args, result'.args)
               /\ Len(result'.args) <= Len(result.args) + 1
        /\ (pc' = "done" /\ result'.kind = "Call")
            => /\ WireArgs(stream, 3, <<>>).ok
               /\ result'.args = WireArgs(stream, 3, <<>>).val
               /\ Len(result'.headers) <= Count(TAG_H)
               /\ (Count(TAG_m) = 0 => result'.method = NullV)
        /\ (pc' = "done" /\ stream = Call10 \o <<TAG_z>>) => result' = Call ]_vars

\* a Call came back with the two arguments of its stream, in their order
C12_Witness ==
    /\ pc = "done" /\ result.kind = "Call"
    /\ tags = <<TAG_c, TAG_N, TAG_T, TAG_z>>
    /\ result.args = <<NullV, BoolV(TRUE)>>

(* C13: the first tag of a stream must be a kind tag: a first byte other    *)
(* than 'c' or 'r', be it a body tag or a value tag, fails the parse with   *)
(* InvalidMarker and no envelope is created.                                *)
C13_FirstTagIsKind ==
    [][ (pc = "loop" /\ pos = 0 /\ stream # <<>> /\ stream[1] \notin {TAG_c, TAG_r})
            => (pc' = "failed" /\ err' = "InvalidMarker" /\ ~HasResult') ]_vars

\* a stream that opens with a header was refused
C13_Witness ==
    /\ pc = "failed" /\ err = "InvalidMarker" /\ ~HasResult
    /\ stream # <<>> /\ stream[1] = TAG_H

(* C14: a kind tag creates an envelope only when the version bytes 0x01     *)
(* 0x00 follow it: with any other two bytes after 'c' or 'r' the parse      *)
(* fails with UnsupportedVersion and no Call or Reply is created.           *)
C14_VersionRequired ==
    [][ /\ (/\ NextTag(TAG_c) \/ NextTag(TAG_r)
            /\ ~HasResult
            /\ pos + 3 <= Len(stream)
            /\ SubSeq(stream, pos + 2, pos + 3) # <<1, 0>>)
            => (pc' = "failed" /\ err' = "UnsupportedVersion" /\ ~HasResult')
        /\ (~HasResult /\ HasResult')
            => /\ pos + 3 <= Len(stream)
               /\ SubSeq(stream, pos + 2, pos + 3) = <<1, 0>>
               /\ pos' = pos + 3 ]_vars

\* a Reply of version 1.1 was refused
C14_Witness ==
    /\ pc = "failed" /\ err = "UnsupportedVersion" /\ ~HasResult
    /\ Len(stream) >= 3 /\ SubSeq(stream, 1, 3) = <<TAG_r, 1, 1>>

---------------------------------------------------------------------------
(* Raw fields and reads at the end of the stream.                          *)

\* raw fields of 0, 1 and 2 bytes: binaries, method names, type names
RawFragments ==
    { <<TAG_B, 0, 0>>, <<TAG_B, 0, 1, 100>>, <<TAG_B, 0, 2, 100, 101>>,
      <<TAG_m, 0, 0>>, <<TAG_m, 0, 1, 97>>, <<TAG_m, 0, 2, 97, 98>>,
      <<TAG_V, TAG_t, 0, 0, TAG_z>>, <<TAG_V, TAG_t, 0, 1, 65, TAG_z>>,
      <<TAG_M, TAG_t, 0, 0, TAG_z>>, <<TAG_M, TAG_t, 0, 1, 65, TAG_z>>,
      <<TAG_N>>, <<TAG_z>> }

RawStreams == CoverStreams \cup Cat(Envelopes, Bodies(RawFragments, MaxBody))

InitRaw == Start(RawStreams)

SpecRaw == InitRaw /\ [][Next]_vars

\* The raw field at position p, just after its tag: a 2-byte length n and the
\* n bytes after it, ok when the stream holds them all.
WireRaw(s, p) ==
    IF p + 2 > Len(s) \/ p + 2 + U16(SubSeq(s, p + 1, p + 2)) > Len(s)
    THEN [ok |-> FALSE, val |-> <<>>, pos |-> p]
    ELSE [ok |-> TRUE,
          val |-> SubSeq(s, p + 3, p + 2 + U16(SubSeq(s, p + 1, p + 2))),
          pos |-> p + 2 + U16(SubSeq(s, p + 1, p + 2))]

(* C15: a 2-byte-length-prefixed raw field of declared length n >= 0, n = 0 *)
(* included, with its n bytes in the stream, decodes: the binary payload    *)
(* and the method name are exactly those n bytes, 2 + n bytes are consumed  *)
(* after the tag, and a list or a map with such a type name decodes.        *)
C15_RawFieldOfAnyLength ==
    [][ /\ (Decoding /\ NextTag(TAG_B) /\ WireRaw(stream, pos + 1).ok)
            => Stored(Binary(WireRaw(stream, pos + 1).val), WireRaw(stream, pos + 1).pos)
        /\ (/\ NextTag(TAG_m) /\ result.kind = "Call" /\ ~MethodDecoded
            /\ WireRaw(stream, pos + 1).ok)
            => /\ pc' = "loop"
               /\ pos' = WireRaw(stream, pos + 1).pos
               /\ result'.method = RawV(WireRaw(stream, pos + 1).val)
        /\ (Decoding /\ NextTag(TAG_V) /\ WireList(stream, pos + 1).ok)
            => (pc' = "loop" /\ pos' = WireList(stream, pos + 1).pos)
        /\ (Decoding /\ NextTag(TAG_M) /\ WireMap(stream, pos + 1).ok)
            => (pc' = "loop" /\ pos' = WireMap(stream, pos + 1).pos) ]_vars

\* a raw field with at least one byte
NotEmpty(s, p) == p + 2 <= Len(s) /\ U16(SubSeq(s, p + 1, p + 2)) > 0

\* The same of the fields that are not empty: it holds.
RawFieldNotEmpty ==
    [][ /\ (Decoding /\ NextTag(TAG_B) /\ WireRaw(stream, pos + 1).ok
                /\ NotEmpty(stream, pos + 1))
            => Stored(Binary(WireRaw(stream, pos + 1).val), WireRaw(stream, pos + 1).pos)
        /\ (/\ NextTag(TAG_m) /\ result.kind = "Call" /\ ~MethodDecoded
            /\ WireRaw(stream, pos + 1).ok /\ NotEmpty(stream, pos + 1))
            => /\ pc' = "loop"
               /\ pos' = WireRaw(stream, pos + 1).pos
               /\ result'.method = RawV(WireRaw(stream, pos + 1).val)
        /\ (Decoding /\ (NextTag(TAG_V) \/ NextTag(TAG_M)) /\ WireList(stream, pos + 1).ok
                /\ NotEmpty(stream, pos + 2))
            => pc' = "loop" ]_vars

\* values cut short by the end of the stream, and whole ones
ShortFragments ==
    { <<TAG_I, 0, 0>>, Zero, <<TAG_L, 0, 0, 0>>, <<TAG_D, 0>>, <<TAG_d, 0, 0, 0, 0, 0>>,
      <<TAG_B, 0, 3, 101>>, <<TAG_B, 0, 1, 100>>, <<TAG_B, 0>>,
      <<TAG_m, 0, 2, 97>>, <<TAG_S, 0, 2, 97>>, <<TAG_S, 0, 1, 224, 160>>,
      <<TAG_N>>, <<TAG_z>> }

ShortStreams == CoverStreams \cup Cat(Envelopes, Bodies(ShortFragments, MaxBody))

InitShort == Start(ShortStreams)

SpecShort == InitShort /\ [][Next]_vars

\* the bytes left after the tag that the loop is about to read
Left == Len(stream) - (pos + 1)

\* the width of the value of a tag of fixed width
Width(c) == IF c = TAG_I THEN 4 ELSE 8

\* the step failed for the end of the stream and stored nothing
EndOfStreamFailure ==
    pc' = "failed" /\ err' = "UnexpectedEndOfStream" /\ result' = result

(* C16: a read of N >= 1 bytes with fewer than N bytes left in the stream   *)
(* fails the parse with UnexpectedEndOfStream: the version after a kind     *)
(* tag, the 4 or 8 bytes of an int, a long, a double or a date, a length    *)
(* prefix, and the bytes that a length prefix announces.                    *)
C16_ShortReadFails ==
    [][ /\ ((NextTag(TAG_c) \/ NextTag(TAG_r)) /\ ~HasResult /\ Left < 2)
            => EndOfStreamFailure
        /\ \A c \in {TAG_I, TAG_L, TAG_D, TAG_d} :
               (Decoding /\ NextTag(c) /\ Left < Width(c)) => EndOfStreamFailure
        /\ (Decoding /\ NextTag(TAG_B) /\ Left < 2) => EndOfStreamFailure
        /\ (/\ Decoding /\ NextTag(TAG_B) /\ Left >= 2
            /\ U16(SubSeq(stream, pos + 2, pos + 3)) > Left - 2)
            => EndOfStreamFailure
        /\ (/\ NextTag(TAG_m) /\ result.kind = "Call" /\ ~MethodDecoded /\ Left >= 2
            /\ U16(SubSeq(stream, pos + 2, pos + 3)) > Left - 2)
            => EndOfStreamFailure ]_vars

---------------------------------------------------------------------------
(* Remotes.  At envelope level 'r' opens a Reply, so a Remote is met as the *)
(* value of a header or inside a list or a map.                             *)

\* what stands for the url: a text, a chunked text, and what is no 's' or 'S'
UrlOptions ==
    { TextA, <<TAG_s, 0, 1, 97, TAG_S, 0, 1, 98>>, <<TAG_X, 0, 1, 97>>,
      <<TAG_B, 0, 1, 97>>, <<TAG_N>>, Zero, <<TAG_R>>, <<>> }

\* a Remote as the value of a header and as the member of a list
RemoteStreams ==
    CoverStreams
    \cup Cat(Envelopes, Cat({<<TAG_H>> \o TextA \o <<TAG_r>>, <<TAG_V, TAG_r>>},
             Cat(TypeOptions, Cat(UrlOptions, Closings))))

InitRemote == Start(RemoteStreams)

SpecRemote == InitRemote /\ [][Next]_vars

\* The Remote at position p, just after its 'r': "ok" with the Remote of the
\* type, if any, and of the url, "badtag" when the tag after the optional type
\* is neither 's' nor 'S', "short" when the stream does not hold a Remote.
WireRemote(s, p) ==
    LET ty == WireType(s, p)
    IN  IF ~ty.ok \/ ty.pos >= Len(s) THEN Wire("short", NullV, p)
        ELSE IF s[ty.pos + 1] \notin {TAG_s, TAG_S} THEN Wire("badtag", NullV, ty.pos + 1)
        ELSE LET url == ReadObject(s, ty.pos + 1, s[ty.pos + 1])
             IN  IF ~url.ok THEN Wire("short", NullV, url.pos)
                 ELSE Wire("ok", Remote(IF ty.typed THEN RawV(ty.name) ELSE NullV, url.val),
                           url.pos)

\* the step is about to read a header of key "a" whose value is a Remote
RemoteHeaderNext ==
    /\ NextTag(TAG_H) /\ HasResult
    /\ Len(stream) >= pos + 6
    /\ SubSeq(stream, pos + 2, pos + 5) = TextA
    /\ stream[pos + 6] = TAG_r

\* the step is about to read, as a value, a list whose first member is a Remote
RemoteMemberNext ==
    /\ Decoding /\ NextTag(TAG_V)
    /\ Len(stream) >= pos + 2 /\ stream[pos + 2] = TAG_r

\* what the step does of the Remote w that the wire holds at its place
RemoteRead(w) ==
    /\ w.kind = "badtag" => (pc' = "failed" /\ err' = "ExpectedString")
    /\ (w.kind = "ok" /\ RemoteHeaderNext)
           => /\ pc' = "loop" /\ pos' = w.pos
              /\ \E i \in 1..Len(result'.headers) :
                     /\ result'.headers[i].k = StrV(<<97>>)
                     /\ result'.headers[i].v = w.val
    /\ (w.kind = "ok" /\ RemoteMemberNext /\ w.pos < Len(stream) /\ stream[w.pos + 1] = TAG_z)
           => Stored(ListV(<<w.val>>), w.pos + 1)

\* a step on a Remote; with named, Remotes with an empty type name are left out
RemoteStep(named) ==
    /\ (RemoteHeaderNext /\ (named => Named(WireType(stream, pos + 6))))
           => RemoteRead(WireRemote(stream, pos + 6))
    /\ (RemoteMemberNext /\ (named => Named(WireType(stream, pos + 2))))
           => RemoteRead(WireRemote(stream, pos + 2))

RemoteOfNamedType == [][RemoteStep(TRUE)]_vars

\* a typed Remote with a chunked url was stored as the value of a header
RemoteOfNamedTypeWitness ==
    /\ pc = "loop" /\ result.kind = "Call" /\ tags = <<TAG_c, TAG_H>>
    /\ result.headers = <<[k |-> StrV(<<97>>),
                           v |-> Remote(RawV(<<65>>), StrV(<<97, 98>>))]>>

---------------------------------------------------------------------------
(* Nesting.  The streams are sequences of up to MaxNest tokens in which the *)
(* bytes 'V', 'M' and 'z' stand as tags only, so that the depth of a        *)
(* position can be counted on the bytes.                                    *)

MaxNest == 5

NestFragments == {<<TAG_V>>, <<TAG_M>>, <<TAG_z>>, <<TAG_N>>, <<TAG_S, 0, 2, 97, 98>>}

NestStreams == CoverStreams \cup Cat(Envelopes, Bodies(NestFragments, MaxNest))

InitNest == Start(NestStreams)

SpecNest == InitNest /\ [][Next]_vars

RECURSIVE Depth(_)
\* the lists and maps that bytes open and leave open
Depth(bytes) ==
    IF bytes = <<>> THEN 0
    ELSE Depth(SubSeq(bytes, 1, Len(bytes) - 1))
         + (CASE bytes[Len(bytes)] \in {TAG_V, TAG_M} -> 1
              [] bytes[Len(bytes)] = TAG_z -> -1
              [] OTHER -> 0)

\* bytes are one list or map, from its tag to the 'z' that closes it
Closed(bytes) ==
    /\ Depth(bytes) = 0
    /\ \A n \in 1..(Len(bytes) - 1) : Depth(SubSeq(bytes, 1, n)) >= 1

(* C18: a 'z' closes the innermost open list or map only: a step on a list  *)
(* or a map never returns the envelope, and goes on only past the 'z' that  *)
(* closes that list or map with all that it opened; the parse returns only  *)
(* on a 'z' read by the envelope loop, with no list or map left open.       *)
C18_TerminatorClosesInnermost ==
    [][ /\ (Decoding /\ (NextTag(TAG_V) \/ NextTag(TAG_M)))
            => /\ pc' # "done"
               /\ pc' = "loop" => /\ stream[pos'] = TAG_z
                                  /\ Closed(SubSeq(stream, pos + 1, pos'))
        /\ pc' = "done"
            => /\ NextTag(TAG_z) /\ HasResult
               /\ pos' = pos + 1
               /\ Depth(SubSeq(stream, 1, pos)) = 0 ]_vars

\* a Call came back whose argument is a map in a list, each closed by its 'z'
C18_Witness ==
    /\ pc = "done" /\ result.kind = "Call"
    /\ stream = Call10 \o <<TAG_V, TAG_M, TAG_z, TAG_z, TAG_z>>
    /\ result.args = <<ListV(<<DictV(<<>>)>>)>>

\* the steps of the loop that call a decoder
Decode == ReadHeader \/ ReadFaultTag \/ ReadValue

\* ENABLED <<Decode>>_vars, read off the guards of the three: a decoder
\* returns or raises, and either way the step is taken
DecodeEnabled ==
    /\ pc = "loop" /\ pos < Len(stream) /\ HasResult
    /\ stream[pos + 1] \notin {TAG_c, TAG_r, TAG_m, TAG_z}

\* parse_stream runs on its own until it returns or raises: a step that can be
\* taken is taken.  The last conjunct is WF_vars(Decode) with its ENABLED
\* written out as DecodeEnabled.
Fairness ==
    /\ WF_vars(EndOfStream) /\ WF_vars(ReadCallHeader) /\ WF_vars(ReadReplyHeader)
    /\ WF_vars(InvalidMarker) /\ WF_vars(ReadMethod) /\ WF_vars(ReadTerminator)
    /\ ([]<>~DecodeEnabled \/ []<><<Decode>>_vars)

FairNest == SpecNest /\ Fairness

(* C19: every parse of a finite stream terminates: the position stays       *)
(* within the stream and only moves forward, every iteration of the         *)
(* envelope loop reads at least one byte or fails, the list, map and        *)
(* character loops inside it come to an end, and the parse eventually       *)
(* returns an envelope or fails.                                            *)
C19_Terminates ==
    /\ [][ /\ pos' >= pos /\ pos' <= Len(stream)
           /\ pc = "loop" => (pc' = "failed" \/ pos' > pos)
           /\ pc # "loop" => UNCHANGED vars ]_vars
    /\ <>(pc \in {"done", "failed"})

\* a parse went through a list of a null and a text of two characters and returned
C19_Witness ==
    /\ pc = "done" /\ pos = Len(stream)
    /\ stream = Reply10 \o <<TAG_V, TAG_N, TAG_S, 0, 2, 97, 98, TAG_z, TAG_z>>
    /\ result.value = ListV(<<NullV, StrV(<<97, 98>>)>>)

---------------------------------------------------------------------------
(* C20: the parse stops at the terminator of the envelope.                 *)

\* what may follow the terminator of an envelope
Tails == {<<>>, <<TAG_z>>, <<TAG_N>>, <<TAG_R>>, Call10, <<TAG_S, 0>>}

\* a run of parse_stream that raised
Raised == [returned |-> FALSE, result |-> NoResult, pos |-> 0]

RECURSIVE Loop(_, _, _)
\* the run of the loop of parse_stream over s from p with self._result = res:
\* what it returns and where it leaves the stream
Loop(s, p, res) ==
    IF p >= Len(s) THEN Raised
    ELSE LET code == s[p + 1]
             some == res.kind # "None"
             step == CASE code \in {TAG_c, TAG_r} -> ReadVersion(s, p + 1)
                       [] code = TAG_H -> ReadHeaderPair(s, p + 1)
                       [] code = TAG_m -> ReadName(s, p + 1)
                       [] code = TAG_f -> ReadFault(s, p + 1)
                       [] OTHER -> ReadObject(s, p + 1, code)
             put  == CASE code = TAG_c -> Call
                       [] code = TAG_r -> Reply
                       [] code = TAG_H ->
                            [res EXCEPT !.headers = DictSet(@, step.val.k, step.val.v)]
                       [] code = TAG_m -> [res EXCEPT !.method = step.val]
                       [] code = TAG_f -> [res EXCEPT !.value = step.val]
                       [] OTHER -> IF res.kind = "Call"
                                   THEN [res EXCEPT !.args = Append(@, step.val)]
                                   ELSE [res EXCEPT !.value = step.val]
             legal == CASE code \in {TAG_c, TAG_r} -> ~some
                        [] code = TAG_H -> some
                        [] code = TAG_m -> res.kind = "Call" /\ ~Truthy(res.method)
                        [] code = TAG_f -> res.kind = "Reply" /\ ~Truthy(res.value)
                        [] OTHER ->
                             some /\ (res.kind = "Call" \/ ~Truthy(res.value))
         IN  IF code = TAG_z /\ some
             THEN [returned |-> TRUE, result |-> res, pos |-> p + 1]
             ELSE IF legal /\ step.ok THEN Loop(s, step.pos, put) ELSE Raised

\* C20: when parse_stream has returned, the last byte it read is the 'z' of
\* the envelope, no step reads on, and the run over the bytes read followed by
\* anything else returns the same envelope and leaves the stream at the same
\* place, what follows unread.
C20_StopsAtTerminator ==
    pc = "done" =>
        /\ pos >= 1 /\ pos <= Len(stream) /\ stream[pos] = TAG_z
        /\ ~ENABLED <<Next>>_vars
        /\ \A tail \in Tails :
               Loop(SubSeq(stream, 1, pos) \o tail, 0, NoResult)
                   = [returned |-> TRUE, result |-> result, pos |-> pos]

\* a Call of one argument returned with a value left unread
C20_Witness ==
    /\ pc = "done"
    /\ stream = Call10 \o <<TAG_T, TAG_z, TAG_N>>
    /\ pos = 5
    /\ result.args = <<BoolV(TRUE)>>
=============================================================================
